---- MODULE Spec2Model ----
(***************************************************************************)
(* A model of the Moswar browser bot: the session restoration check        *)
(* (authorization.log_in), the main script, the activity starters of the   *)
(* Alley and of Shaurburgers, and the page-guard decorator of the          *)
(* secondary locations.                                                    *)
(*                                                                         *)
(* The web site and the file system are the environment: what a page       *)
(* shows, whether an element is found, what the site answers to a click    *)
(* and whether a file write succeeds are inputs of each operation, chosen  *)
(* with \E.  Every operation is one action that runs the whole method.     *)
(* The browser and file operations a call performs are recorded, in        *)
(* order, in `events`.                                                     *)
(***************************************************************************)
EXTENDS Integers, Sequences, FiniteSets, TLC

VARIABLES
    store,          \* the cookies file on disk (./cookies/cookies.pkl)
    now,            \* the wall clock, datetime.now()
    url,            \* driver.current_url
    authenticated,  \* whether the site treats the browsing context as logged in
    player,         \* the attributes of the Player object: name -> value
    call,           \* the most recent call: its name, arguments and pre-state
    outcome,        \* how that call ended: returned (with a value) or raised
    events,         \* the browser and file operations of that call, in order
    loginDone,      \* whether log_in has returned in this process
    ncalls,         \* the number of operations called in this session
    mainpc,         \* the position of main.py in MainScript (0: no script runs)
    pet,            \* the PetForFightMain object of the session, if constructed
    home            \* the on_page attribute of the session's Home object

vars == <<store, now, url, authenticated, player, call, outcome, events,
          loginDone, ncalls, mainpc, pet, home>>

(***************************************************************************)
(* Bounds of the model.                                                    *)
(***************************************************************************)
MaxTime == 2        \* the clock and cookie expiries range over 0..MaxTime
MaxCookies == 2     \* the number of cookies the site issues in one login
MaxCalls == 3       \* the number of operations a session calls

(***************************************************************************)
(* Events and outcomes.                                                    *)
(***************************************************************************)
Ev(k, t, v) == [k |-> k, t |-> t, v |-> v]

\* Python values a call hands back: None, a bool, an int or an object
None == [t |-> "none", b |-> FALSE, n |-> 0]
Bool(b) == [t |-> "bool", b |-> b, n |-> 0]
Int_(n) == [t |-> "int", b |-> FALSE, n |-> n]
Obj == [t |-> "obj", b |-> FALSE, n |-> 0]
Truthy(v) == (v.t = "bool" /\ v.b) \/ (v.t = "int" /\ v.n # 0) \/ v.t = "obj"

Returned(v) == [status |-> "returned", value |-> v, err |-> "none"]
Raised(e) == [status |-> "raised", value |-> None, err |-> e]
NoOutcome == [status |-> "none", value |-> None, err |-> "none"]

HasEvent(evs, k, t) == \E i \in 1..Len(evs) : evs[i].k = k /\ evs[i].t = t
HasKind(evs, k) == \E i \in 1..Len(evs) : evs[i].k = k

(***************************************************************************)
(* The cookies file.  A cookie (session marker) is a dict with a name and, *)
(* unless it is a session cookie, an "expiry" key.                         *)
(***************************************************************************)
NoExpiry == -1
AuthName == "authkey"

Absent == [exists |-> FALSE, readable |-> TRUE, cookies |-> <<>>]
Corrupt == [exists |-> TRUE, readable |-> FALSE, cookies |-> <<>>]
Saved(cs) == [exists |-> TRUE, readable |-> TRUE, cookies |-> cs]

\* for cookie in cookies: if cookie["name"] == "authkey": auth_cookie = cookie; break
HasAuth(cs) == \E i \in 1..Len(cs) : cs[i].name = AuthName
FirstAuth(cs) ==
    cs[CHOOSE i \in 1..Len(cs) :
        /\ cs[i].name = AuthName
        /\ \A j \in 1..(i - 1) : cs[j].name # AuthName]

\* auth_cookie["expiry"] < current_time
IsExpiredMut(c, t) == c.expiry <= t
IsExpired(c, t) == c.expiry < t

(***************************************************************************)
(* log_in, as a function of the store, the clock and the environment env:  *)
(*   email, password, submit : whether find_element finds the element      *)
(*   issued   : what driver.get_cookies() returns after the submit click   *)
(*   accepted : whether the site accepted the submitted credentials        *)
(*   honoured : whether the site still honours the injected cookies        *)
(*   write    : "ok", "open_fails" or "dump_fails" for the store write     *)
(* The result is the new store, the events, the outcome and whether the    *)
(* browsing context ends up authenticated.                                 *)
(***************************************************************************)
LoginResult(st, evs, out, auth) ==
    [store |-> st, events |-> evs, outcome |-> out, auth |-> auth]

RECURSIVE AddCookies(_, _)
AddCookies(cs, i) ==
    IF i > Len(cs) THEN <<>>
    ELSE <<Ev("add_cookie", cs[i].name, cs[i].expiry)>> \o AddCookies(cs, i + 1)

\* lines 62-66: restore the session from the cookies file
RestoreSession(st, evs, env) ==
    LoginResult(st,
                evs \o AddCookies(st.cookies, 1) \o <<Ev("refresh", "page", 0)>>,
                Returned(Obj), env.honoured)

\* lines 92-96: save the cookies the browser now holds
SaveCookiesMut(st, evs, env) ==
    LET evs1 == evs \o <<Ev("get_cookies", "browser", 0)>>
    IN  IF env.write = "ok"
        THEN LoginResult(Saved(env.issued), evs1 \o <<Ev("write", "store", 0)>>,
                         Returned(Obj), env.accepted)
        ELSE LoginResult(st, evs1, Returned(Obj), env.accepted)
SaveCookies(st, evs, env) ==
    LET evs1 == evs \o <<Ev("get_cookies", "browser", 0)>>
    IN  CASE env.write = "ok" ->
                LoginResult(Saved(env.issued), evs1 \o <<Ev("write", "store", 0)>>,
                            Returned(Obj), env.accepted)
          [] env.write = "open_fails" ->
                LoginResult(st, evs1, Raised("OSError"), env.accepted)
          [] OTHER ->
                LoginResult(Corrupt, evs1, Raised("OSError"), env.accepted)

\* lines 67-96: interactive login
InteractiveLoginMut(st, evs, env) ==
    LET e0 == evs \o <<Ev("mkdir", "cookies_folder", 0)>>
        w  == SaveCookies(st, e0, env)
    IN  IF ~env.email
        THEN LoginResult(w.store, w.events, Raised("NoSuchElementException"), FALSE)
        ELSE w
InteractiveLogin(st, evs, env) ==
    LET e0 == evs \o <<Ev("mkdir", "cookies_folder", 0)>>
        e1 == e0 \o <<Ev("find", "email", 0), Ev("clear", "email", 0),
                      Ev("send_keys", "email", 0)>>
        e2 == e1 \o <<Ev("find", "password", 0), Ev("clear", "password", 0),
                      Ev("send_keys", "password", 0)>>
        e3 == e2 \o <<Ev("find", "submit", 0), Ev("click", "submit", 0)>>
    IN  IF ~env.email
        THEN LoginResult(st, e0, Raised("NoSuchElementException"), FALSE)
        ELSE IF ~env.password
        THEN LoginResult(st, e1, Raised("NoSuchElementException"), FALSE)
        ELSE IF ~env.submit
        THEN LoginResult(st, e2, Raised("NoSuchElementException"), FALSE)
        ELSE SaveCookies(st, e3, env)

\* lines 35-98
log_in(st, t, env) ==
    LET e0 == <<Ev("get", "root", 0)>>
    IN  IF ~st.exists
        THEN InteractiveLogin(st, e0, env)
        ELSE IF ~st.readable
        THEN LoginResult(st, e0, Raised("UnpicklingError"), FALSE)
        ELSE IF ~HasAuth(st.cookies)
        THEN LoginResult(st, e0, Raised("UnboundLocalError"), FALSE)
        ELSE IF FirstAuth(st.cookies).expiry = NoExpiry
        THEN LoginResult(st, e0, Raised("KeyError"), FALSE)
        ELSE IF IsExpired(FirstAuth(st.cookies), t)
        THEN InteractiveLogin(Absent, e0 \o <<Ev("unlink", "store", 0)>>, env)
        ELSE RestoreSession(st, e0, env)

(***************************************************************************)
(* What the site can issue at time t: at most MaxCookies cookies; the      *)
(* authentication cookie carries an expiry not before t or none (a session *)
(* cookie), any other cookie is a session cookie.  The site issues an      *)
(* authentication cookie exactly when it accepts the credentials.          *)
(***************************************************************************)
CookiesAt(t) ==
    {[name |-> AuthName, expiry |-> e] : e \in (t..MaxTime) \cup {NoExpiry}}
        \cup {[name |-> "PHPSESSID", expiry |-> NoExpiry]}

IssuedAt(t) == UNION {[1..n -> CookiesAt(t)] : n \in 0..MaxCookies}

\* The inputs of a call with store st at time t.  An input the call does not
\* read has one value: the form is there when the call does not look for it,
\* an element after a missing one is missing, no cookies are issued and no
\* write fails when the form is not submitted.
LoginEnvs(st, t) ==
    {env \in [email : BOOLEAN, password : BOOLEAN, submit : BOOLEAN,
              issued : IssuedAt(t), accepted : BOOLEAN, honoured : BOOLEAN,
              write : {"ok", "open_fails", "dump_fails"}] :
        LET evs == log_in(st, t, env).events
        IN  /\ env.accepted = HasAuth(env.issued)
            /\ IF ~HasEvent(evs, "mkdir", "cookies_folder")
               THEN env.email /\ env.password /\ env.submit /\ env.issued = <<>>
                    /\ env.write = "ok"
               ELSE /\ ~env.email => ~env.password
                    /\ ~env.password => ~env.submit
                    /\ ~env.submit => env.issued = <<>> /\ env.write = "ok"
            /\ ~HasKind(evs, "refresh") => ~env.honoured}

(***************************************************************************)
(* The browser.  driver.get(u) lands on u unless the site redirects: to    *)
(* the fight page while the player is in a battle, to the root page when   *)
(* the session is not logged in.  The site's mode is an input of each call *)
(* and stays the same during it.                                           *)
(***************************************************************************)
SiteModes == {"normal", "fight", "logged_out"}

Land(target, site) ==
    CASE site = "fight" -> "fight"
      [] site = "logged_out" -> "root"
      [] OTHER -> target

\* a frame: the player's attributes, the current url and the events so far
Frame(p, u, ev) == [p |-> p, u |-> u, ev |-> ev]
\* a result: a frame and how the call ended
Result(p, u, ev, out) == [p |-> p, u |-> u, ev |-> ev, out |-> out]

Get(fr, target, site) ==
    Frame(fr.p, Land(target, site), fr.ev \o <<Ev("get", target, 0)>>)
Refresh(fr, site) ==
    Frame(fr.p, Land(fr.u, site), fr.ev \o <<Ev("refresh", "page", 0)>>)
\* find_element: the element is found or NoSuchElementException is raised
Find(fr, found, loc, v) ==
    Frame(fr.p, fr.u, fr.ev \o <<Ev(IF found THEN "find" ELSE "miss", loc, v)>>)
Do(fr, k, loc, v) == Frame(fr.p, fr.u, fr.ev \o <<Ev(k, loc, v)>>)

\* setattr / getattr on a Python object
SetAttr(p, f, v) == [x \in (DOMAIN p) \cup {f} |-> IF x = f THEN v ELSE p[x]]
HasAttr(p, f) == f \in DOMAIN p
With(fr, f, v) == Frame(SetAttr(fr.p, f, v), fr.u, fr.ev)

Return(fr, v) == Result(fr.p, fr.u, fr.ev, Returned(v))
Raise(fr, e) == Result(fr.p, fr.u, fr.ev, Raised(e))
FrameOf(r) == Frame(r.p, r.u, r.ev)

(***************************************************************************)
(* What the pages show.                                                    *)
(***************************************************************************)
NotShown == -1                    \* the element is missing or its text is no number
NoDigits == -2                    \* the text holds no digits
MaxShownHours == 2                \* small hour counts a page shows: 0..MaxShownHours
MaxDelta == 1                     \* patrol minutes shown: an option less 0..MaxDelta
MaxAmount == 1                    \* resource amounts a page shows: 0..MaxAmount

MinWorkHours == 1
MaxWorkHours == 8
PatrolOptions == {20, 40}
TVOptions == {1}
WorkingSentinel == -9999

\* what the pages show and what the callers ask for: the values at and next
\* to the limits the code compares with
WorkShown == (1..MaxShownHours) \cup {MaxWorkHours + 1}
RoutineWorkHours == 2
RoutinePatrolMinutes == 40
WorkArgs == {MinWorkHours - 1, MinWorkHours, RoutineWorkHours, MaxWorkHours,
             MaxWorkHours + 1}
TVShown == 0..MaxShownHours
TVArgs == 0..2
PatrolShown == {m - d : m \in PatrolOptions, d \in 0..MaxDelta}
PatrolArgs == {0, 20, 30, 40}
AmountShown == 0..MaxAmount

\* int(time_left_el.text.split(" ")[-2]) or, on any exception, 0
ShownOrZero(shown) == IF shown = NotShown THEN 0 ELSE shown

\* find the element and read the number in its text: the events of it
ReadNumber(fr, loc, shown) ==
    IF shown = NotShown THEN Find(fr, FALSE, loc, 0)
    ELSE Do(Find(fr, TRUE, loc, 0), "text", loc, shown)

(***************************************************************************)
(* Player (entities/player.py).  Of the attributes __init__ sets, the      *)
(* model carries those that a modelled operation reads or writes; the      *)
(* health, energy, stat and level numbers and the item counts are read     *)
(* from the page (their missing elements raise) but are not carried.       *)
(***************************************************************************)
\* lines 34-94: the attributes and their defaults
PlayerDefaults ==
    [money |-> 0, ore |-> 0, chips |-> 0,
     on_rest |-> FALSE, on_patrol |-> FALSE, on_work |-> FALSE, on_TV |-> FALSE,
     in_battle |-> FALSE, in_underground |-> FALSE, is_major |-> FALSE,
     patrol_time_left |-> 0, work_time_left |-> 0, TV_time_left |-> 0]

\* lines 117-128
Player_open(fr, site) ==
    IF fr.u # "player" THEN Get(fr, "player", site) ELSE Refresh(fr, site)

\* lines 281-305
update_battle_status(fr, is_refresh, site) ==
    LET f1 == IF is_refresh THEN Refresh(fr, site) ELSE fr
    IN  With(f1, "in_battle", f1.u = "fight")

\* lines 307-332
update_underground_status(fr, is_refresh, site, underground) ==
    LET f1 == IF is_refresh THEN Refresh(fr, site) ELSE fr
    IN  With(Find(f1, underground, "underground_label", 0),
             "in_underground", underground)

\* lines 334-367: env.onWork, env.workShown (NotShown: no select on the page;
\* NoDigits: its last option holds no number, and work_time_left stays)
update_work_status(fr, site, env) ==
    LET f1 == Get(fr, "shaurburgers", site)
        f2 == With(Find(f1, env.onWork, "work_label", 0), "on_work", env.onWork)
    IN  IF env.onWork THEN f2
        ELSE IF env.workShown = NotShown
        THEN With(Find(f2, FALSE, "time", 0), "work_time_left", 0)
        ELSE IF env.workShown = NoDigits
        THEN Do(Find(f2, TRUE, "time", 0), "text", "time", 0)
        ELSE With(Do(Find(f2, TRUE, "time", 0), "text", "time", env.workShown),
                  "work_time_left", env.workShown)

\* lines 370-392
update_all_actvities_status(fr, site, env) ==
    LET f1 == update_battle_status(fr, TRUE, site)
        f2 == update_underground_status(f1, FALSE, site, env.underground)
    IN  IF f2.p["in_battle"] \/ f2.p["in_underground"] THEN f2
        ELSE update_work_status(f2, site, env)

\* lines 108-114: the page reads of a full update.  env.fail names the first
\* update whose element is missing ("none": all are found).
InfoFails == {"none", "health", "stats", "basic", "advanced"}

update_info(fr, site, env) ==
    LET h  == Find(Refresh(fr, site), env.fail # "health", "currenthp", 0)
        s  == Find(Player_open(h, site), env.fail # "stats", "stats", 0)
        a  == Find(Player_open(s, site), TRUE, "inventory_counts", 0)
        b0 == Find(a, env.fail # "basic", "basic_recourses", 0)
        b  == With(With(b0, "money", env.money), "ore", env.ore)
        d  == Find(Get(b, "berezka", site), env.fail # "advanced",
                   "advanced_recourses", 0)
        m  == With(Find(Get(d, "stash", site), env.major, "major_status", 0),
                   "is_major", env.major)
    IN  CASE env.fail = "health" -> Raise(h, "NoSuchElementException")
          [] env.fail = "stats" -> Raise(s, "NoSuchElementException")
          [] env.fail = "basic" -> Raise(b0, "NoSuchElementException")
          [] env.fail = "advanced" -> Raise(d, "NoSuchElementException")
          [] OTHER -> Return(update_all_actvities_status(m, site, env), None)

\* lines 26-115: Player(driver, update_info_on_init).  A constructor that
\* raises leaves no object: the caller keeps what it had (old).
Player_init(old, u, update_info_on_init, site, env) ==
    LET f0 == Player_open(Frame(PlayerDefaults, u, <<>>), site)
        f1 == update_battle_status(f0, FALSE, site)
        f2 == update_underground_status(f1, FALSE, site, env.underground)
        r  == IF ~update_info_on_init THEN Return(f2, Obj)
              ELSE IF f2.p["in_battle"] \/ f2.p["in_underground"] THEN Return(f2, Obj)
              ELSE update_info(f2, site, env)
    IN  IF r.out.status = "raised" THEN Result(old, r.u, r.ev, r.out)
        ELSE Result(r.p, r.u, r.ev, Returned(Obj))

PlayerEnvs ==
    [underground : BOOLEAN, fail : InfoFails, money : AmountShown,
     ore : AmountShown, major : BOOLEAN, onWork : BOOLEAN,
     workShown : WorkShown \cup {NotShown, NoDigits}]

(***************************************************************************)
(* Player.use_item (entities/player.py lines 552-599).                     *)
(***************************************************************************)
MaxFailAt == 2      \* a click that fails is one of the first MaxFailAt clicks

\* the one item use_item supports (line 565), written in Latin letters
SupportedItem == "Poleznyj pelmen"

\* lines 588-590: the first n clicks of the loop
Clicks(fr, loc, n) ==
    Frame(fr.p, fr.u, fr.ev \o [i \in 1..n |-> Ev("click", loc, i)])

\* lines 582 and, for the pet, pets.py line 208
NotEnoughMut(count, times) == FALSE
NotEnough(count, times) == count < times

\* env: site, found (the item is on the page), count (the number its count
\* element shows, or NotShown), failAt (the click that raises; 0: none does)
use_item(fr, item, times, env) ==
    LET o == Player_open(fr, env.site)
        i == Find(o, env.found, "item", 0)
        c == ReadNumber(i, "item_count", env.count)
    IN  IF item # SupportedItem THEN Return(o, None)
        ELSE IF ~env.found THEN Return(i, None)
        ELSE IF env.count = NotShown THEN Raise(c, "NoSuchElementException")
        ELSE IF NotEnough(env.count, times) THEN Return(c, None)
        ELSE IF env.failAt \in 1..times
        THEN Return(Do(Clicks(c, "item", env.failAt - 1), "click_failed", "item",
                       env.failAt), None)
        ELSE Return(Clicks(c, "item", times), None)

UseEnvs(times) ==
    {env \in [site : SiteModes, found : BOOLEAN,
              count : {c \in {times - 1, times, times + 1} : c >= 0}
                          \cup {NotShown},
              failAt : 0..MaxFailAt] :
        /\ ~env.found => env.count = NotShown
        /\ env.count < times => env.failAt = 0
        /\ env.failAt > 0 => env.failAt <= times}

(***************************************************************************)
(* PetForFightMain (entities/pets.py).  Of the attributes of a pet the     *)
(* model carries the name and the two health numbers; currenthp_prc is     *)
(* their quotient, and focus, loyality and mass are read from the page     *)
(* (their missing elements raise) but are not carried.                     *)
(***************************************************************************)
\* pet_ids (lines 39-45): two of its names, and the page of each
PetNames == {"Doberman", "Pantera"}
PetPage(name) ==
    IF name = "Doberman" THEN "petarena/train/1998999" ELSE "petarena/train/2431326"

\* item_img_links (line 47), written in Latin letters
PetSupportedItem == "Kostochka"

\* the result of a pet operation: that of the call and the pet object after it
PetResult(r, pt) == [p |-> r.p, u |-> r.u, ev |-> r.ev, out |-> r.out, pet |-> pt]

\* lines 65-79
NewPet(name) == [name |-> name, currenthp |-> 0, currenthp_max |-> 0]

\* lines 84-97
Pet_open(fr, pt, site) ==
    IF fr.u # PetPage(pt.name) THEN Get(fr, PetPage(pt.name), site)
    ELSE Refresh(fr, site)

\* lines 100-129.  env: site, fail (the first element that is missing, or
\* "none"), hp, hpmax (the numbers the health element shows)
update_pet_info(fr, pt, env) ==
    LET o  == Pet_open(fr, pt, env.site)
        h  == ReadNumber(o, "pethp", IF env.fail = "hp" THEN NotShown ELSE env.hp)
        p1 == [pt EXCEPT !.currenthp = env.hp, !.currenthp_max = env.hpmax]
        f  == Find(h, env.fail # "focus", "focus", 0)
        l  == Find(f, env.fail # "loyality", "loyality", 0)
        m  == Find(l, env.fail # "mass", "mass", 0)
    IN  CASE env.fail = "hp" -> PetResult(Raise(h, "NoSuchElementException"), pt)
          [] env.hpmax = 0 -> PetResult(Raise(h, "ZeroDivisionError"), p1)
          [] env.fail = "focus" -> PetResult(Raise(f, "NoSuchElementException"), p1)
          [] env.fail = "loyality" -> PetResult(Raise(l, "NoSuchElementException"), p1)
          [] env.fail = "mass" -> PetResult(Raise(m, "NoSuchElementException"), p1)
          [] OTHER -> PetResult(Return(m, None), p1)

\* the health numbers a pet page shows: zero and not zero, the current one at
\* most the maximum.  An input the call does not read has one value.
PetHpShown == {0, 1}

PetInfoEnvs ==
    {env \in [site : SiteModes, fail : {"none", "hp", "focus", "loyality", "mass"},
              hp : PetHpShown, hpmax : PetHpShown] :
        /\ env.hp <= env.hpmax
        /\ env.fail = "hp" => env.hp = 0 /\ env.hpmax = 0
        /\ env.hpmax = 0 => env.fail \in {"none", "hp"}}

\* lines 61-64: the name is a key of pet_ids
KnownPetMut(name) == TRUE
KnownPet(name) == name \in PetNames

\* lines 49-82: PetForFightMain(player, driver, name).  A constructor that
\* raises leaves no object: the caller keeps what it had (old).
Pet_init(old, fr, name, env) ==
    LET r == update_pet_info(fr, NewPet(name), env)
    IN  IF ~KnownPet(name) THEN PetResult(Raise(fr, "ValueError"), old)
        ELSE IF r.out.status = "raised" THEN PetResult(r, old)
        ELSE PetResult(Result(r.p, r.u, r.ev, Returned(Obj)), r.pet)

\* lines 173-227.  env: site, found, count, action (the item's action element
\* is found), failAt
Pet_use_item(fr, pt, item, times, env) ==
    LET o == Pet_open(fr, pt, env.site)
        i == Find(o, env.found, "pet_item", 0)
        c == Find(i, env.count # NotShown, "pet_item_count", 0)
        a == Find(c, env.action, "pet_item_action", 0)
        t == Do(a, "text", "pet_item_count", env.count)
    IN  IF item # PetSupportedItem THEN Return(o, None)
        ELSE IF ~env.found THEN Return(i, None)
        ELSE IF env.count = NotShown THEN Raise(c, "NoSuchElementException")
        ELSE IF ~env.action THEN Raise(a, "NoSuchElementException")
        ELSE IF NotEnough(env.count, times) THEN Return(t, None)
        ELSE IF env.failAt \in 1..times
        THEN Return(Do(Clicks(t, "pet_item_action", env.failAt - 1), "click_failed",
                       "pet_item_action", env.failAt), None)
        ELSE Return(Clicks(t, "pet_item_action", times), None)

PetUseEnvs(times) ==
    {env \in [site : SiteModes, found : BOOLEAN,
              count : {c \in {times - 1, times, times + 1} : c >= 0}
                          \cup {NotShown},
              action : BOOLEAN, failAt : 0..MaxFailAt] :
        /\ ~env.found => env.count = NotShown
        /\ env.count = NotShown => ~env.action
        /\ (~env.action \/ env.count < times) => env.failAt = 0
        /\ env.failAt > 0 => env.failAt <= times}

(***************************************************************************)
(* Alley (locations/alley.py): patrol and Patriot TV.                      *)
(***************************************************************************)
\* lines 79-90
Alley_open(fr, site) ==
    IF fr.u # "alley" THEN Get(fr, "alley", site) ELSE Refresh(fr, site)

\* lines 328-338: returns the frame with on_patrol set; the value is `found`
is_patrol_active(fr, found) ==
    Return(With(Find(fr, found, "patrol_active", 0), "on_patrol", found), Bool(found))

\* lines 341-352
get_patrol_time_left(fr, shown) ==
    Return(With(ReadNumber(fr, "patrol_time_left", shown),
                "patrol_time_left", ShownOrZero(shown)),
           Int_(ShownOrZero(shown)))

\* line 368: the time left the decision rests on
PatrolTimeForDecisionMut(fr, shown) ==
    Return(fr, Int_(fr.p["patrol_time_left"]))
PatrolTimeForDecision(fr, shown) == get_patrol_time_left(fr, shown)

\* alley.py lines 385 and 490, locations_secondary.py line 145: the time left
\* recorded once the activity is seen active after the click
TimeLeftAfterStartMut(left, duration) == left
TimeLeftAfterStart(left, duration) == left - duration

\* line 360: patrol_minutes not in [20, 40] ends start_patrol
AllowedPatrolMinutesMut(patrol_minutes) == TRUE
AllowedPatrolMinutes(patrol_minutes) == patrol_minutes \in PatrolOptions

\* lines 354-390.  env: active0, shown, select, button, active1
start_patrol(fr, patrol_minutes, env) ==
    LET a  == is_patrol_active(fr, env.active0)
        t  == PatrolTimeForDecision(FrameOf(a), env.shown)
        s  == Find(FrameOf(t), env.select, "patrol_select_minutes", 0)
        s1 == Do(s, "select", "patrol_select_minutes", patrol_minutes)
        b  == Find(s1, env.button, "patrol_start_button", 0)
        c  == Do(b, "click", "patrol_start_button", 0)
        z  == is_patrol_active(c, env.active1)
    IN  IF ~AllowedPatrolMinutes(patrol_minutes) THEN Return(fr, None)
        ELSE IF a.out.value.b THEN Return(FrameOf(a), None)
        ELSE IF t.out.value.n < patrol_minutes THEN Return(FrameOf(t), None)
        ELSE IF ~env.select THEN Raise(s, "NoSuchElementException")
        ELSE IF ~env.button THEN Raise(b, "NoSuchElementException")
        ELSE IF z.out.value.b
        THEN Return(With(FrameOf(z), "patrol_time_left",
                         TimeLeftAfterStart(z.p["patrol_time_left"], patrol_minutes)), None)
        ELSE Return(FrameOf(z), None)

\* lines 433-443
is_TV_active(fr, found) ==
    Return(With(Find(fr, found, "TV_active", 0), "on_TV", found), Bool(found))

\* lines 446-457
get_TV_time_left(fr, shown) ==
    Return(With(ReadNumber(fr, "TV_time_left", shown),
                "TV_time_left", ShownOrZero(shown)),
           Int_(ShownOrZero(shown)))

\* lines 460-495.  env: active0, shown, select, button, active1
start_watching_TV(fr, watch_hours, env) ==
    LET a  == is_TV_active(fr, env.active0)
        t  == get_TV_time_left(FrameOf(a), env.shown)
        s  == Find(FrameOf(t), env.select, "TV_select_hours", 0)
        s1 == Do(s, "select", "TV_select_hours", watch_hours)
        b  == Find(s1, env.button, "TV_start_button", 0)
        c  == Do(b, "click", "TV_start_button", 0)
        z  == is_TV_active(c, env.active1)
    IN  IF watch_hours \notin TVOptions THEN Return(fr, None)
        ELSE IF a.out.value.b THEN Return(FrameOf(a), None)
        ELSE IF t.out.value.n < watch_hours THEN Return(FrameOf(t), None)
        ELSE IF ~env.select THEN Raise(s, "NoSuchElementException")
        ELSE IF ~env.button THEN Raise(b, "NoSuchElementException")
        ELSE IF z.out.value.b
        THEN Return(With(FrameOf(z), "TV_time_left",
                         TimeLeftAfterStart(z.p["TV_time_left"], watch_hours)), None)
        ELSE Return(FrameOf(z), None)

\* The inputs of a start operation.  An input the call never reads (the one
\* after a missing element, say) is left at FALSE.
ActivityEnvs(shownSet) ==
    {env \in [active0 : BOOLEAN, shown : shownSet \cup {NotShown},
              select : BOOLEAN, button : BOOLEAN, active1 : BOOLEAN] :
        /\ env.active0 => env.shown = NotShown /\ ~env.select
        /\ ~env.select => ~env.button
        /\ ~env.button => ~env.active1}

(***************************************************************************)
(* require_location_page (utils/decorators.py lines 9-21).  The wrapper    *)
(* calls the method only when self.is_opened(); otherwise it logs an error *)
(* that reads self.BASE_URL and returns None.  Factory defines PAGE_URLS   *)
(* and no BASE_URL, so that read raises AttributeError.                    *)
(***************************************************************************)
Locations == {"shaurburgers", "casino", "police", "nightclub", "factory"}

\* the url is_opened() compares driver.current_url with
MainPage(loc) == loc

\* is_opened(): locations_secondary.py lines 45-49, 182-186, 276-280, 360-364, 463-467
is_opened(loc, u) == u = MainPage(loc)

\* whether the class has the attribute BASE_URL (lines 27, 163, 259, 343; 436)
HasBaseUrl(loc) == loc # "factory"

\* "call": run the method; otherwise the result of the wrapper
Guard(loc, fr) ==
    IF is_opened(loc, fr.u) THEN "call"
    ELSE IF HasBaseUrl(loc) THEN "abort"
    ELSE "attribute_error"

Aborted(loc, fr) ==
    IF Guard(loc, fr) = "abort" THEN Return(fr, None)
    ELSE Raise(fr, "AttributeError")

(***************************************************************************)
(* Shaurburgers (locations/locations_secondary.py lines 17-150).           *)
(***************************************************************************)
\* lines 51-62
Shaurburgers_open(fr, site) ==
    IF ~is_opened("shaurburgers", fr.u) THEN Get(fr, "shaurburgers", site)
    ELSE Refresh(fr, site)

\* lines 64-75
is_work_active(fr, found) ==
    IF Guard("shaurburgers", fr) # "call" THEN Aborted("shaurburgers", fr)
    ELSE Return(With(Find(fr, found, "work_leave_button", 0), "on_work", found),
                Bool(found))

\* lines 77-93.  env: active, shown
get_work_time_left(fr, env) ==
    LET a == is_work_active(fr, env.active)
        time_left ==
            IF Truthy(a.out.value) THEN WorkingSentinel ELSE ShownOrZero(env.shown)
        f == IF Truthy(a.out.value) THEN FrameOf(a)
             ELSE ReadNumber(FrameOf(a), "work_select_hours", env.shown)
    IN  IF Guard("shaurburgers", fr) # "call" THEN Aborted("shaurburgers", fr)
        ELSE Return(With(f, "work_time_left", time_left), Int_(time_left))

\* line 112
ValidWorkHoursMut(work_hours) == MinWorkHours <= work_hours
ValidWorkHours(work_hours) == MinWorkHours <= work_hours /\ work_hours <= MaxWorkHours

\* lines 95-150.  env: active0, active0b, shown, select, button, active1 and
\* stays: whether the browser is still on the page after the click (or the
\* site has sent it to a fight)
start_work_shift(fr, work_hours, env) ==
    LET a  == is_work_active(fr, env.active0)
        t  == get_work_time_left(FrameOf(a), [active |-> env.active0b, shown |-> env.shown])
        s  == Find(FrameOf(t), env.select, "work_select_hours", 0)
        s1 == Do(s, "select", "work_select_hours", work_hours)
        b  == Find(s1, env.button, "work_start_button", 0)
        c0 == Do(b, "click", "work_start_button", 0)
        c  == Frame(c0.p, IF env.stays THEN c0.u ELSE Land(c0.u, "fight"), c0.ev)
        z  == is_work_active(c, env.active1)
    IN  IF Guard("shaurburgers", fr) # "call" THEN Aborted("shaurburgers", fr)
        ELSE IF ~ValidWorkHours(work_hours) THEN Return(fr, None)
        ELSE IF Truthy(a.out.value) THEN Return(FrameOf(a), None)
        ELSE IF t.out.value.n < work_hours THEN Return(FrameOf(t), None)
        ELSE IF ~env.select THEN Raise(s, "NoSuchElementException")
        ELSE IF ~env.button THEN Raise(b, "NoSuchElementException")
        ELSE IF Truthy(z.out.value)
        THEN Return(With(FrameOf(z), "work_time_left",
                         TimeLeftAfterStart(z.p["work_time_left"], work_hours)), None)
        ELSE Return(FrameOf(z), None)

WorkEnvs ==
    {env \in [active0 : BOOLEAN, active0b : BOOLEAN,
              shown : WorkShown \cup {NotShown}, select : BOOLEAN,
              button : BOOLEAN, stays : BOOLEAN, active1 : BOOLEAN] :
        /\ env.active0 => ~env.active0b
        /\ (env.active0 \/ env.active0b) => env.shown = NotShown /\ ~env.select
        /\ ~env.select => ~env.button
        /\ ~env.button => ~env.stays
        /\ ~env.stays => ~env.active1}

(***************************************************************************)
(* Casino, Police, NightClub and Factory (locations_secondary.py lines     *)
(* 153-558).  The attributes casino_chips, police_*, tattoo_* and petrics  *)
(* are not set by Player.__init__: the player has them once a method has   *)
(* assigned them.                                                          *)
(***************************************************************************)
MinChips == 1
MaxChips == 20
ChipsArgs == {MinChips - 1, MinChips, MaxChips, MaxChips + 1}

\* open(): lines 188-199, 282-293, 366-377 and, with page = BASE, 469-491
Location_open(loc, fr, site) ==
    IF ~is_opened(loc, fr.u) THEN Get(fr, MainPage(loc), site)
    ELSE Refresh(fr, site)

\* where the browser is after a click: on the same page (stays) or on the
\* page of a fight the site has sent it to
AfterClick(fr, stays) ==
    Frame(fr.p, IF stays THEN fr.u ELSE Land(fr.u, "fight"), fr.ev)

\* Casino.get_player_chips_amount, lines 201-212
get_player_chips_amount(fr, shown) ==
    LET f == ReadNumber(fr, "chips_balance", shown)
    IN  IF Guard("casino", fr) # "call" THEN Aborted("casino", fr)
        ELSE IF shown = NotShown THEN Return(f, Int_(WorkingSentinel))
        ELSE Return(With(f, "casino_chips", shown), Int_(shown))

\* Casino.buy_chips, lines 214-246.  env: input, confirm, refused
buy_chips(fr, amount, env) ==
    LET i  == Find(fr, env.input, "buy_chips_input", 0)
        i1 == Do(Do(Do(i, "click", "buy_chips_input", 0),
                    "send_keys", "buy_chips_input", -1),
                 "send_keys", "buy_chips_input", amount)
        c  == Find(i1, env.confirm, "buy_chips_confirm", 0)
        c1 == Do(c, "click", "buy_chips_confirm", 0)
        e  == Find(c1, env.refused, "buy_chips_error", 0)
    IN  IF Guard("casino", fr) # "call" THEN Aborted("casino", fr)
        ELSE IF ~(MinChips <= amount /\ amount <= MaxChips) THEN Return(fr, None)
        ELSE IF ~env.input THEN Raise(i, "NoSuchElementException")
        ELSE IF ~env.confirm THEN Raise(c, "NoSuchElementException")
        ELSE IF env.refused THEN Return(e, None)
        ELSE IF ~HasAttr(e.p, "casino_chips") THEN Raise(e, "AttributeError")
        ELSE Return(With(e, "casino_chips", e.p["casino_chips"] + amount), None)

BuyEnvs ==
    {env \in [input : BOOLEAN, confirm : BOOLEAN, refused : BOOLEAN] :
        /\ ~env.input => ~env.confirm
        /\ ~env.confirm => ~env.refused}

\* Police.are_connections_established, lines 295-309, under
\* require_page_prefix (decorators.py lines 24-39)
are_connections_established(fr, found) ==
    LET f == Find(fr, found, "connections_status", 0)
    IN  IF fr.u # MainPage("police") THEN Return(fr, None)
        ELSE IF found
        THEN Return(With(With(f, "police_expiration_date", Obj),
                         "police_is_active", TRUE), Bool(TRUE))
        ELSE Return(With(With(f, "police_expiration_date", None),
                         "police_is_active", FALSE), Bool(FALSE))

\* Police.establish_connections, lines 311-330.  env: before, button, stays, after
establish_connections(fr, env) ==
    LET a == are_connections_established(fr, env.before)
        b == Find(FrameOf(a), env.button, "connections_establish", 0)
        c == AfterClick(Do(b, "click", "connections_establish", 0), env.stays)
        z == are_connections_established(c, env.after)
    IN  IF Guard("police", fr) # "call" THEN Aborted("police", fr)
        ELSE IF Truthy(a.out.value) THEN Return(FrameOf(a), None)
        ELSE IF ~env.button THEN Raise(b, "NoSuchElementException")
        ELSE Return(FrameOf(z), None)

PoliceEnvs ==
    {env \in [before : BOOLEAN, button : BOOLEAN, stays : BOOLEAN, after : BOOLEAN] :
        /\ env.before => ~env.button
        /\ ~env.button => ~env.stays
        /\ ~env.stays => ~env.after}

\* NightClub.is_tattoo_availiable, lines 379-403.  shown: the seconds the
\* timer shows, NotShown when the page has no timer
is_tattoo_availiable(fr, shown) ==
    LET f == ReadNumber(fr, "tattoo_timer", shown)
        available == ShownOrZero(shown) = 0
    IN  IF Guard("nightclub", fr) # "call" THEN Aborted("nightclub", fr)
        ELSE Return(With(With(f, "tattoo_is_available", available),
                         "tattoo_availability_date", Obj), Bool(available))

\* NightClub.get_tattoo, lines 405-422.  env: timer0, button, stays, timer1
get_tattoo(fr, env) ==
    LET a == is_tattoo_availiable(fr, env.timer0)
        b == Find(FrameOf(a), env.button, "tattoo_get", 0)
        c == AfterClick(Do(b, "click", "tattoo_get", 0), env.stays)
        z == is_tattoo_availiable(c, env.timer1)
    IN  IF Guard("nightclub", fr) # "call" THEN Aborted("nightclub", fr)
        ELSE IF ~Truthy(a.out.value) THEN Return(FrameOf(a), None)
        ELSE IF ~env.button THEN Raise(b, "NoSuchElementException")
        ELSE Return(FrameOf(z), None)

TattooEnvs ==
    {env \in [timer0 : AmountShown \cup {NotShown}, button : BOOLEAN,
              stays : BOOLEAN, timer1 : AmountShown \cup {NotShown}] :
        /\ ShownOrZero(env.timer0) # 0 => ~env.button
        /\ ~env.button => ~env.stays
        /\ ~env.stays => env.timer1 = NotShown}

\* Factory.get_current_petrics_amount, lines 495-503
get_current_petrics_amount(fr, shown) ==
    LET f == ReadNumber(fr, "petrics_amt", shown)
    IN  IF Guard("factory", fr) # "call" THEN Aborted("factory", fr)
        ELSE IF shown = NotShown THEN Raise(f, "NoSuchElementException")
        ELSE Return(With(f, "petrics", shown), Int_(shown))

\* Factory.get_petrics_amount_to_be_produced, lines 505-513
get_petrics_amount_to_be_produced(fr, shown) ==
    LET f == ReadNumber(fr, "petrics_amt_to_be_produced", shown)
    IN  IF Guard("factory", fr) # "call" THEN Aborted("factory", fr)
        ELSE IF shown = NotShown THEN Raise(f, "NoSuchElementException")
        ELSE Return(f, Int_(shown))

\* Factory.if_producing_petrics, lines 515-521
if_producing_petrics(fr) ==
    IF Guard("factory", fr) # "call" THEN Aborted("factory", fr)
    ELSE Return(fr, Bool(FALSE))

\* lines 550-551: the locator of the timed production button is the
\* placeholder "TBA" (line 446), which no element of a page matches
ProduceWithTimer(fr) ==
    Raise(Find(fr, FALSE, "petrics_produce_timer", 0), "NoSuchElementException")

\* Factory.start_producing_petrics, lines 523-558.  env: toProduce, current,
\* instant (the button is found), stays, after
start_producing_petrics(fr, env) ==
    LET p == if_producing_petrics(fr)
        n == get_petrics_amount_to_be_produced(FrameOf(p), env.toProduce)
        c == get_current_petrics_amount(FrameOf(n), env.current)
        b == Find(FrameOf(c), env.instant, "petrics_produce_no_timer", 0)
        k == AfterClick(Do(b, "click", "petrics_produce_no_timer", 0), env.stays)
        a == get_current_petrics_amount(k, env.after)
        amt == n.out.value.n
        done == With(With(With(FrameOf(a), "petrics", a.p["petrics"] + amt),
                          "ore", a.p["ore"] - amt),
                     "money", a.p["money"] - amt * 100)
    IN  IF Guard("factory", fr) # "call" THEN Aborted("factory", fr)
        ELSE IF n.out.status = "raised" THEN n
        ELSE IF c.out.status = "raised" THEN ProduceWithTimer(FrameOf(c))
        ELSE IF ~env.instant THEN ProduceWithTimer(b)
        ELSE IF a.out.status = "raised" /\ a.out.err = "NoSuchElementException"
        THEN ProduceWithTimer(FrameOf(a))
        ELSE IF a.out.status = "raised" THEN a
        ELSE IF c.out.value.n + amt = a.out.value.n THEN Return(done, None)
        ELSE Return(FrameOf(a), None)

ProduceEnvs ==
    {env \in [toProduce : AmountShown \cup {NotShown},
              current : AmountShown \cup {NotShown}, instant : BOOLEAN,
              stays : BOOLEAN, after : AmountShown \cup {NotShown}] :
        /\ env.toProduce = NotShown => env.current = NotShown
        /\ env.current = NotShown => ~env.instant
        /\ ~env.instant => ~env.stays
        /\ ~env.stays => env.after = NotShown}

(***************************************************************************)
(* The player before construction: an object with no attributes.           *)
(***************************************************************************)
NoPlayer == [f \in {} |-> 0]

\* no PetForFightMain object
NoPet == [f \in {} |-> 0]

\* Home.on_page is None (home.py line 49)
NoPage == "none"
NoCall == [op |-> "none"]

(***************************************************************************)
(* LoginSpec: processes that start a browser and call log_in, one after    *)
(* the other, over the same cookies file.                                  *)
(***************************************************************************)
InitLogin ==
    /\ store = Absent
    /\ now = 0
    /\ url = "blank"
    /\ authenticated = FALSE
    /\ player = NoPlayer
    /\ call = NoCall
    /\ outcome = NoOutcome
    /\ events = <<>>
    /\ loginDone = FALSE
    /\ ncalls = 0
    /\ mainpc = 0
    /\ pet = NoPet
    /\ home = NoPage

\* a new process: webdriver.Chrome(options) opens a fresh browser, later
StartProcess ==
    /\ call.op = "log_in"
    /\ \E t \in now..MaxTime : now' = t
    /\ url' = "blank"
    /\ authenticated' = FALSE
    /\ call' = NoCall
    /\ outcome' = NoOutcome
    /\ events' = <<>>
    /\ loginDone' = FALSE
    /\ UNCHANGED <<store, player, ncalls, mainpc, pet, home>>

LogIn ==
    /\ call.op = "none"
    /\ \E env \in LoginEnvs(store, now) :
        LET r == log_in(store, now, env)
        IN  /\ store' = r.store
            /\ events' = r.events
            /\ outcome' = r.outcome
            /\ authenticated' = r.auth
            /\ loginDone' = (r.outcome.status = "returned")
            /\ call' = [op |-> "log_in", store0 |-> store,
                        email |-> env.email, password |-> env.password,
                        submit |-> env.submit, write |-> env.write]
    /\ url' = "root"
    /\ UNCHANGED <<now, player, ncalls, mainpc, pet, home>>

NextLogin == StartProcess \/ LogIn

LoginSpec == InitLogin /\ [][NextLogin]_vars

(***************************************************************************)
(* Spec: a session.  log_in has returned, the Player object has been       *)
(* constructed, and the caller invokes the operations of the Alley and of  *)
(* Shaurburgers in any order, with any argument.                           *)
(***************************************************************************)
\* the Player objects Player(driver, update_info_on_init=False) can be
SessionPlayers ==
    {Player_init(NoPlayer, "root", FALSE, site,
                 [underground |-> ug, fail |-> "none", money |-> 0, ore |-> 0,
                  major |-> FALSE, onWork |-> FALSE, workShown |-> NotShown]).p :
        site \in {"normal"}, ug \in {FALSE}}

Init ==
    /\ store = Saved(<<[name |-> AuthName, expiry |-> MaxTime]>>)
    /\ now = 0
    /\ url = "player"
    /\ authenticated = TRUE
    /\ player \in SessionPlayers
    /\ call = NoCall
    /\ outcome = NoOutcome
    /\ events = <<>>
    /\ loginDone = TRUE
    /\ ncalls = 0
    /\ mainpc = 0
    /\ pet = NoPet
    /\ home = NoPage

\* the call ran: its result becomes the state
Called(op, loc, arg, r) ==
    /\ ncalls < MaxCalls
    /\ ncalls' = ncalls + 1
    /\ player' = r.p
    /\ url' = r.u
    /\ events' = r.ev
    /\ outcome' = r.out
    /\ call' = [op |-> op, loc |-> loc, arg |-> arg,
                 opened |-> is_opened(loc, url), changed |-> r.p # player]
    /\ UNCHANGED <<store, now, authenticated, loginDone, mainpc>>

\* a call on the player or on a location that has no attributes of its own
Ran(op, loc, arg, r) ==
    /\ Called(op, loc, arg, r)
    /\ UNCHANGED <<pet, home>>

Here == Frame(player, url, <<>>)

AlleyOpen ==
    \E site \in SiteModes :
        Ran("open", "alley", 0, Return(Alley_open(Here, site), None))

IsPatrolActive ==
    \E found \in BOOLEAN :
        Ran("is_patrol_active", "alley", 0, is_patrol_active(Here, found))

GetPatrolTimeLeft ==
    \E shown \in PatrolShown \cup {NotShown} :
        Ran("get_patrol_time_left", "alley", 0, get_patrol_time_left(Here, shown))

StartPatrol ==
    \E m \in PatrolArgs, env \in ActivityEnvs(PatrolShown) :
        Ran("start_patrol", "alley", m, start_patrol(Here, m, env))

IsTVActive ==
    \E found \in BOOLEAN :
        Ran("is_TV_active", "alley", 0, is_TV_active(Here, found))

GetTVTimeLeft ==
    \E shown \in TVShown \cup {NotShown} :
        Ran("get_TV_time_left", "alley", 0, get_TV_time_left(Here, shown))

StartWatchingTV ==
    \E h \in TVArgs, env \in ActivityEnvs(TVShown) :
        Ran("start_watching_TV", "alley", h, start_watching_TV(Here, h, env))

ShaurburgersOpen ==
    \E site \in SiteModes :
        Ran("open", "shaurburgers", 0, Return(Shaurburgers_open(Here, site), None))

IsWorkActive ==
    \E found \in BOOLEAN :
        Ran("is_work_active", "shaurburgers", 0, is_work_active(Here, found))

GetWorkTimeLeft ==
    \E active \in BOOLEAN, shown \in WorkShown \cup {NotShown} :
        Ran("get_work_time_left", "shaurburgers", 0,
            get_work_time_left(Here, [active |-> active, shown |-> shown]))

StartWorkShift ==
    \E h \in WorkArgs, env \in WorkEnvs :
        Ran("start_work_shift", "shaurburgers", h, start_work_shift(Here, h, env))

Next ==
    \/ AlleyOpen
    \/ IsPatrolActive
    \/ GetPatrolTimeLeft
    \/ StartPatrol
    \/ IsTVActive
    \/ GetTVTimeLeft
    \/ StartWatchingTV
    \/ ShaurburgersOpen
    \/ IsWorkActive
    \/ GetWorkTimeLeft
    \/ StartWorkShift

Spec == Init /\ [][Next]_vars

(***************************************************************************)
(* go_on_activities (src/general_functions.py lines 8-28) and ActivitySpec, *)
(* the session of Spec that also calls the routine.                        *)
(***************************************************************************)
\* the methods class Player defines (player.py lines 26-552)
PlayerMethods ==
    {"open", "update_health_and_energy", "update_stats", "update_major_status",
     "update_recourses_basic", "update_recourses_advanced",
     "update_recourses_active", "update_battle_status",
     "update_underground_status", "update_work_status",
     "update_all_actvities_status", "show_info", "restore_health",
     "restore_energy", "use_item"}

\* lines 9-13: the two status updates, then, outside battle and underground,
\* player.update_patrol_status(), which class Player does not define: the
\* attribute lookup raises AttributeError and lines 14-28 do not run
go_on_activities(fr, site, underground) ==
    LET f1 == update_battle_status(fr, TRUE, site)
        f2 == update_underground_status(f1, FALSE, site, underground)
    IN  IF f2.p["in_battle"] \/ f2.p["in_underground"] THEN Return(f2, None)
        ELSE IF "update_patrol_status" \notin PlayerMethods
        THEN Raise(f2, "AttributeError")
        ELSE Return(f2, None)

GoOnActivities ==
    \E site \in SiteModes, underground \in BOOLEAN :
        Ran("go_on_activities", "routine", 0, go_on_activities(Here, site, underground))

NextActivity ==
    \/ Next
    \/ GoOnActivities

ActivitySpec == Init /\ [][NextActivity]_vars

(***************************************************************************)
(* LocationSpec: a session that calls the operations of the secondary      *)
(* locations in any order, from any page.                                  *)
(***************************************************************************)
LocationOpen ==
    \E loc \in Locations \ {"shaurburgers"}, site \in SiteModes :
        Ran("open", loc, 0, Return(Location_open(loc, Here, site), None))

GetPlayerChipsAmount ==
    \E shown \in AmountShown \cup {NotShown} :
        Ran("get_player_chips_amount", "casino", 0,
            get_player_chips_amount(Here, shown))

BuyChips ==
    \E amount \in ChipsArgs, env \in BuyEnvs :
        Ran("buy_chips", "casino", amount, buy_chips(Here, amount, env))

EstablishConnections ==
    \E env \in PoliceEnvs :
        Ran("establish_connections", "police", 0, establish_connections(Here, env))

IsTattooAvailiable ==
    \E shown \in AmountShown \cup {NotShown} :
        Ran("is_tattoo_availiable", "nightclub", 0, is_tattoo_availiable(Here, shown))

GetTattoo ==
    \E env \in TattooEnvs :
        Ran("get_tattoo", "nightclub", 0, get_tattoo(Here, env))

GetCurrentPetricsAmount ==
    \E shown \in AmountShown \cup {NotShown} :
        Ran("get_current_petrics_amount", "factory", 0,
            get_current_petrics_amount(Here, shown))

GetPetricsAmountToBeProduced ==
    \E shown \in AmountShown \cup {NotShown} :
        Ran("get_petrics_amount_to_be_produced", "factory", 0,
            get_petrics_amount_to_be_produced(Here, shown))

IfProducingPetrics ==
    Ran("if_producing_petrics", "factory", 0, if_producing_petrics(Here))

StartProducingPetrics ==
    \E env \in ProduceEnvs :
        Ran("start_producing_petrics", "factory", 0,
            start_producing_petrics(Here, env))

NextLocation ==
    \/ ShaurburgersOpen
    \/ IsWorkActive
    \/ GetWorkTimeLeft
    \/ StartWorkShift
    \/ LocationOpen
    \/ GetPlayerChipsAmount
    \/ BuyChips
    \/ EstablishConnections
    \/ IsTattooAvailiable
    \/ GetTattoo
    \/ GetCurrentPetricsAmount
    \/ GetPetricsAmountToBeProduced
    \/ IfProducingPetrics
    \/ StartProducingPetrics

LocationSpec == Init /\ [][NextLocation]_vars

(***************************************************************************)
(* ItemSpec: a session that uses items of the player and of a pet, and     *)
(* constructs the pet, in any order and with any argument.                 *)
(***************************************************************************)
MaxTimes == 3       \* use_item is asked for -1..MaxTimes uses

ItemArgs == {SupportedItem, PetSupportedItem}
TimesArgs == {-1, 0, 1, MaxTimes}
PetNameArgs == PetNames \cup {"Sharik"}

\* a call on the pet: its result and the pet object after it
PetRan(op, arg, r) ==
    /\ Called(op, "pet", arg, r)
    /\ pet' = r.pet
    /\ UNCHANGED home

PlayerOpen ==
    \E site \in SiteModes :
        Ran("open", "player", 0, Return(Player_open(Here, site), None))

PlayerUseItem ==
    \E item \in ItemArgs, times \in TimesArgs :
        \E env \in UseEnvs(times) :
            /\ item # SupportedItem => ~env.found
            /\ Ran("use_item", "player",
                   [item |-> item, times |-> times, found |-> env.found,
                    count |-> env.count, action |-> TRUE, failAt |-> env.failAt],
                   use_item(Here, item, times, env))

PetInit ==
    \E name \in PetNameArgs, env \in PetInfoEnvs :
        /\ name \notin PetNames => (env.site = "normal" /\ env.fail = "hp")
        /\ PetRan("PetForFightMain", name, Pet_init(pet, Here, name, env))

UpdatePetInfo ==
    /\ pet # NoPet
    /\ \E env \in PetInfoEnvs :
        PetRan("update_pet_info", 0, update_pet_info(Here, pet, env))

PetUseItem ==
    /\ pet # NoPet
    /\ \E item \in ItemArgs, times \in TimesArgs :
        \E env \in PetUseEnvs(times) :
            /\ item # PetSupportedItem => ~env.found
            /\ PetRan("use_item",
                      [item |-> item, times |-> times, found |-> env.found,
                       count |-> env.count, action |-> env.action,
                       failAt |-> env.failAt],
                      PetResult(Pet_use_item(Here, pet, item, times, env), pet))

NextItem ==
    \/ PlayerOpen
    \/ PlayerUseItem
    \/ PetInit
    \/ UpdatePetInfo
    \/ PetUseItem

ItemSpec == Init /\ [][NextItem]_vars

(***************************************************************************)
(* Home (src/locations/home.py).  on_page is the page the object believes  *)
(* the browser is on: None ("none") after construction, or one of PAGES.   *)
(***************************************************************************)
\* line 33
HomePages == {"home", "mars", "zodiac"}

\* line 68: any(word in driver.current_url for word in PAGES); of the urls a
\* session visits only the home page and its two subpages contain such a word
InHome(u) == u \in {"home", "mars", "zodiac"}

\* lines 34-37 and 92
SubpageButton(page) == IF page = "mars" THEN "mars_button" ELSE "zodiac_button"

\* lines 68-69: on_page once open() has looked at the url
ResetOnPageMut(u, on_page) == on_page
ResetOnPage(u, on_page) == IF ~InHome(u) THEN NoPage ELSE on_page

HomeResult(r, on_page) ==
    [p |-> r.p, u |-> r.u, ev |-> r.ev, out |-> r.out, home |-> on_page]

\* Home.open, lines 52-101.  env: site, button (the subpage's button is
\* found), click (the click succeeds), arrives (the click loads the subpage)
Home_open(fr, on_page, page, env) ==
    LET on0 == ResetOnPage(fr.u, on_page)
        g   == Get(fr, "home", env.site)
        b   == Find(g, env.button, SubpageButton(page), 0)
        c   == Do(b, IF env.click THEN "click" ELSE "click_failed",
                  SubpageButton(page), 0)
        c1  == Frame(c.p, IF env.click /\ env.arrives THEN page ELSE c.u, c.ev)
    IN  IF page \notin HomePages THEN HomeResult(Raise(fr, "ValueError"), on0)
        ELSE IF on0 = page
        THEN HomeResult(Return(Refresh(fr, env.site), None), on0)
        ELSE IF page = "home" THEN HomeResult(Return(g, None), "home")
        ELSE IF ~env.button THEN HomeResult(Return(b, None), "home")
        ELSE IF ~env.click THEN HomeResult(Return(c1, None), "home")
        ELSE HomeResult(Return(c1, None), page)

HomeEnvs ==
    {env \in [site : SiteModes, button : BOOLEAN, click : BOOLEAN,
              arrives : BOOLEAN] :
        /\ ~env.button => ~env.click
        /\ ~env.click => ~env.arrives}

\* Home.check_mars_trip_timer, lines 103-133.  shown: whether the timer is
\* there, and its hours and minutes
check_mars_trip_timer(fr, on_page, env, shown) ==
    LET o == Home_open(fr, on_page, "mars", env)
        t == Find(FrameOf(o), shown.there, "mars_timer", 0)
        r == Do(t, "text", "mars_timer", shown.h * 60 + shown.m)
    IN  IF o.home # "mars" THEN HomeResult(Return(FrameOf(o), None), o.home)
        ELSE IF ~shown.there THEN HomeResult(Return(t, Int_(0)), o.home)
        ELSE HomeResult(Return(r, Int_(shown.h * 3600 + shown.m * 60)), o.home)

TimerShown ==
    {t \in [there : BOOLEAN, h : 0..MaxShownHours, m : 0..MaxAmount] :
        ~t.there => (t.h = 0 /\ t.m = 0)}

(***************************************************************************)
(* HomeSpec: a logged-in session that calls the Home object and leaves the *)
(* home pages by opening the player page.                                  *)
(***************************************************************************)
HomePageArgs == HomePages \cup {"garage"}

HomeRan(op, page, r) ==
    /\ Called(op, "home", [page |-> page, on_page |-> home, inside |-> InHome(url)], r)
    /\ home' = r.home
    /\ UNCHANGED pet

\* an input the call does not read has one value
HomeReads(r, env) ==
    /\ (~HasKind(r.ev, "get") /\ ~HasKind(r.ev, "refresh")) => env.site = "normal"
    /\ (\A i \in 1..Len(r.ev) : r.ev[i].k \notin {"find", "miss"} \/ r.ev[i].t = "mars_timer")
            => ~env.button

HomeOpen ==
    \E page \in HomePageArgs, env \in HomeEnvs :
        /\ HomeReads(Home_open(Here, home, page, env), env)
        /\ HomeRan("open", page, Home_open(Here, home, page, env))

CheckMarsTripTimer ==
    \E env \in HomeEnvs, shown \in TimerShown :
        /\ HomeReads(Home_open(Here, home, "mars", env), env)
        /\ Home_open(Here, home, "mars", env).home # "mars" => ~shown.there
        /\ HomeRan("check_mars_trip_timer", "mars",
                   check_mars_trip_timer(Here, home, env, shown))

NextHome ==
    \/ PlayerOpen
    \/ HomeOpen
    \/ CheckMarsTripTimer

HomeSpec == Init /\ [][NextHome]_vars

(***************************************************************************)
(* MainSpec: one run of the script main.py.  mainpc is the position in     *)
(* MainScript; a statement that raises ends the script.                    *)
(***************************************************************************)
\* main.py: the statements that call into the bot, in the order of the file
\* (lines 43, 46, 47, 48 and 51-53)
MainScriptMut == <<"Player", "log_in", "use_item", "show_info", "fight">>
MainScript == <<"log_in", "Player", "use_item", "show_info", "fight">>

MainUseTimes == 140
MainCookies == 1    \* the number of cookies the site issues to the script

MainEnded == Len(MainScript) + 1
MainAt(stmt) == mainpc \in 1..Len(MainScript) /\ MainScript[mainpc] = stmt

\* lines 36-37: the options are set and the browser is started; the cookies
\* file is missing or holds the session of an earlier run
InitMain ==
    /\ store \in {Absent,
                  Saved(<<[name |-> AuthName, expiry |-> 0]>>),
                  Saved(<<[name |-> AuthName, expiry |-> MaxTime]>>)}
    /\ now \in 0..MaxTime
    /\ url = "blank"
    /\ authenticated = FALSE
    /\ player = NoPlayer
    /\ call = NoCall
    /\ outcome = NoOutcome
    /\ events = <<>>
    /\ loginDone = FALSE
    /\ ncalls = 0
    /\ mainpc = 1
    /\ pet = NoPet
    /\ home = NoPage

\* the statement ran: the script goes on unless it raised
MainRan(op, arg, r) ==
    /\ player' = r.p
    /\ url' = r.u
    /\ events' = r.ev
    /\ outcome' = r.out
    /\ call' = [op |-> op, loc |-> "main", arg |-> arg]
    /\ mainpc' = IF r.out.status = "raised" THEN MainEnded ELSE mainpc + 1
    /\ UNCHANGED <<now, ncalls, pet, home>>

\* line 43: driver = log_in(driver, credentials)
MainLogIn ==
    /\ MainAt("log_in")
    /\ \E env \in LoginEnvs(store, now) :
        /\ Len(env.issued) <= MainCookies
        /\ LET r == log_in(store, now, env)
           IN  /\ store' = r.store
               /\ authenticated' = r.auth
               /\ loginDone' = (r.outcome.status = "returned")
               /\ MainRan("log_in", 0, Result(player, "root", r.events, r.outcome))

\* line 46: player = Player(driver, update_info_on_init=True)
MainPlayer ==
    /\ MainAt("Player")
    /\ \E site \in SiteModes, env \in PlayerEnvs :
        MainRan("Player", 0, Player_init(player, url, TRUE, site, env))
    /\ UNCHANGED <<store, authenticated, loginDone>>

\* line 47: player.use_item("Полезный пельмень", 140)
MainUseItem ==
    /\ MainAt("use_item")
    /\ \E env \in UseEnvs(MainUseTimes) :
        MainRan("use_item", MainUseTimes,
                use_item(Frame(player, url, <<>>), SupportedItem, MainUseTimes, env))
    /\ UNCHANGED <<store, authenticated, loginDone>>

\* line 48: player.show_info(show_all=True) prints the attributes
MainShowInfo ==
    /\ MainAt("show_info")
    /\ MainRan("show_info", 0, Return(Frame(player, url, <<>>), None))
    /\ UNCHANGED <<store, authenticated, loginDone>>

\* lines 51-53: Alley(player, driver), then alley.fight_random_enemy_by_level,
\* a method Alley does not have
MainFight ==
    /\ MainAt("fight")
    /\ MainRan("fight_random_enemy_by_level", 16,
               Raise(Frame(player, url, <<>>), "AttributeError"))
    /\ UNCHANGED <<store, authenticated, loginDone>>

NextMain ==
    \/ MainLogIn
    \/ MainPlayer
    \/ MainUseItem
    \/ MainShowInfo
    \/ MainFight

MainSpec == InitMain /\ [][NextMain]_vars

(***************************************************************************)
(* Properties of the activity starters (Spec).                             *)
(***************************************************************************)
StartOps == {"start_patrol", "start_watching_TV", "start_work_shift"}

\* the start button of an activity and the element that shows its time left
StartButton(op) ==
    CASE op = "start_patrol" -> "patrol_start_button"
      [] op = "start_watching_TV" -> "TV_start_button"
      [] OTHER -> "work_start_button"
TimeLeftElement(op) ==
    CASE op = "start_patrol" -> "patrol_time_left"
      [] op = "start_watching_TV" -> "TV_time_left"
      [] OTHER -> "work_select_hours"
ActiveElement(op) ==
    CASE op = "start_patrol" -> "patrol_active"
      [] op = "start_watching_TV" -> "TV_active"
      [] OTHER -> "work_leave_button"
StartButtons == {StartButton(op) : op \in StartOps}

IsEvent(i, k, t) == events[i].k = k /\ events[i].t = t
Clicked(op) == HasEvent(events, "click", StartButton(op))

\* the call read the time left from the page and it was at least `wanted`
ReadEnough(op, wanted) ==
    \E j \in 1..Len(events) :
        IsEvent(j, "text", TimeLeftElement(op)) /\ events[j].v >= wanted

\* the call looked for the activity's mark before it read the time left, and
\* did not find it
SeenIdle(op) ==
    /\ HasEvent(events, "miss", ActiveElement(op))
    /\ \A j \in 1..Len(events) :
        IsEvent(j, "find", ActiveElement(op)) =>
            \E c \in 1..(j - 1) : IsEvent(c, "click", StartButton(op))

\* C7: every click on the start button of a patrol, of a Patriot TV session or
\* of a work shift happens in the start operation of that activity and after
\* that same call has read the activity's time left from the page, and the
\* value read is at least the duration asked for.
C7_ClickFollowsFreshRead ==
    \A i \in 1..Len(events) :
        (events[i].k = "click" /\ events[i].t \in StartButtons)
        => /\ call.op \in StartOps
           /\ events[i].t = StartButton(call.op)
           /\ \E j \in 1..(i - 1) :
                /\ IsEvent(j, "text", TimeLeftElement(call.op))
                /\ events[j].v >= call.arg

C7_Witness ==
    /\ call.op = "start_patrol"
    /\ call.arg = 40
    /\ Clicked("start_patrol")
    /\ ncalls >= 2
    /\ player["on_patrol"]

\* C9: start_work_shift clicks the start-work control only if work_hours is
\* between 1 and 8, the call saw the player not working and the work time left
\* it read is at least work_hours; in every other case it returns (None)
\* without clicking.
WorkConditions ==
    /\ 1 <= call.arg /\ call.arg <= 8
    /\ SeenIdle("start_work_shift")
    /\ ReadEnough("start_work_shift", call.arg)

C9_WorkShiftClickGuarded ==
    (call.op = "start_work_shift")
    => /\ Clicked("start_work_shift") => WorkConditions
       /\ ~WorkConditions =>
            (outcome = Returned(None) /\ ~HasKind(events, "click"))

C9_Witness ==
    /\ call.op = "start_work_shift"
    /\ call.arg = 8
    /\ Clicked("start_work_shift")
    /\ outcome = Returned(None)
    /\ player["on_work"]

\* C10: start_patrol and start_watching_TV click their start button only if the
\* duration asked for is allowed (20 or 40 minutes; 1 hour), the call saw the
\* activity not active and the time left it read is at least that duration;
\* otherwise they return (None) without selecting a duration or clicking.
AlleyConditions ==
    /\ \/ call.op = "start_patrol" /\ call.arg \in {20, 40}
       \/ call.op = "start_watching_TV" /\ call.arg = 1
    /\ SeenIdle(call.op)
    /\ ReadEnough(call.op, call.arg)

C10_AlleyStartGuarded ==
    (call.op \in {"start_patrol", "start_watching_TV"})
    => /\ Clicked(call.op) => AlleyConditions
       /\ ~AlleyConditions =>
            /\ outcome = Returned(None)
            /\ ~HasKind(events, "click")
            /\ ~HasKind(events, "select")

C10_Witness ==
    /\ call.op = "start_watching_TV"
    /\ call.arg = 1
    /\ Clicked("start_watching_TV")
    /\ player["on_TV"]
    /\ player["TV_time_left"] = 1

(***************************************************************************)
(* Properties of log_in (LoginSpec).                                       *)
(***************************************************************************)
LoginRan == call.op = "log_in"

\* the add_cookie events of the call, in order
Injected == SelectSeq(events, LAMBDA e : e.k = "add_cookie")

InjectedAll(cs) ==
    /\ Len(Injected) = Len(cs)
    /\ \A i \in 1..Len(cs) :
        Injected[i].t = cs[i].name /\ Injected[i].v = cs[i].expiry

\* the store the claim C1 speaks of: none, or one without an authkey marker,
\* or one whose authkey marker expired before the current time
NeedsLogin(st, t) ==
    \/ ~st.exists
    \/ /\ st.readable
       /\ \/ ~HasAuth(st.cookies)
          \/ /\ FirstAuth(st.cookies).expiry # NoExpiry
             /\ FirstAuth(st.cookies).expiry < t

\* the store the claim C2 speaks of: its authkey marker has not expired
ValidStore(st, t) ==
    /\ st.exists
    /\ st.readable
    /\ HasAuth(st.cookies)
    /\ FirstAuth(st.cookies).expiry # NoExpiry
    /\ FirstAuth(st.cookies).expiry >= t

\* C1 (as claimed): whenever log_in runs with no store, with a store that holds
\* no authkey marker, or with one whose authkey marker has expired, then (the
\* login form being there and the write succeeding) it leaves no old store
\* behind, submits the login and password fields, clicks the submit control,
\* captures the browser's cookies and writes them to the store, and returns.
C1_LoginWhenAbsentOrExpired ==
    (/\ LoginRan
     /\ NeedsLogin(call.store0, now)
     /\ call.email /\ call.password /\ call.submit
     /\ call.write = "ok")
    => /\ outcome.status = "returned"
       /\ HasEvent(events, "send_keys", "email")
       /\ HasEvent(events, "send_keys", "password")
       /\ HasEvent(events, "click", "submit")
       /\ HasEvent(events, "get_cookies", "browser")
       /\ HasEvent(events, "write", "store")
       /\ store.exists /\ store.readable
       /\ (call.store0.exists => HasEvent(events, "unlink", "store"))

\* C2: whenever log_in runs with a store whose authkey marker has an expiry not
\* earlier than the current time, it returns having injected every marker of
\* the store, in order, and then reloaded the page; it submits no credentials,
\* deletes no store and writes no store: the store is what it was.
C2_ValidStoreIsRestored ==
    (LoginRan /\ ValidStore(call.store0, now))
    => /\ outcome.status = "returned"
       /\ InjectedAll(call.store0.cookies)
       /\ events[Len(events)] = Ev("refresh", "page", 0)
       /\ ~HasKind(events, "send_keys")
       /\ ~HasKind(events, "click")
       /\ ~HasKind(events, "unlink")
       /\ ~HasKind(events, "write")
       /\ store = call.store0

C2_Witness ==
    /\ LoginRan
    /\ ValidStore(call.store0, now)
    /\ Len(call.store0.cookies) = 2
    /\ FirstAuth(call.store0.cookies).expiry = now
    /\ outcome.status = "returned"
    /\ Len(Injected) = 2

\* C3 (as claimed): every log_in call that returns hands back an authenticated
\* browsing context.
C3_ReturnedIsAuthenticated ==
    (LoginRan /\ outcome.status = "returned") => authenticated

\* C4: if the email field, the password field or the submit control is not
\* found during interactive login, log_in ends with NoSuchElementException, it
\* writes no store in that run, and no store remains.
C4_MissingFieldIsFatal ==
    (/\ LoginRan
     /\ HasEvent(events, "mkdir", "cookies_folder")
     /\ ~(call.email /\ call.password /\ call.submit))
    => /\ outcome = Raised("NoSuchElementException")
       /\ ~HasKind(events, "write")
       /\ ~HasKind(events, "get_cookies")
       /\ ~store.exists

C4_Witness ==
    /\ LoginRan
    /\ call.store0.exists
    /\ HasEvent(events, "unlink", "store")
    /\ call.email /\ call.password /\ ~call.submit
    /\ outcome.status = "raised"
    /\ ~store.exists

\* C5: a failure of the store write at the end of interactive login leaves
\* log_in with the error (OSError): it never returns normally after it.
C5_WriteFailurePropagates ==
    (/\ LoginRan
     /\ HasEvent(events, "get_cookies", "browser")
     /\ call.write # "ok")
    => outcome = Raised("OSError")

C5_Witness ==
    /\ LoginRan
    /\ HasEvent(events, "click", "submit")
    /\ call.write = "dump_fails"
    /\ outcome.status = "raised"
    /\ store = Corrupt

(***************************************************************************)
(* Properties of the main script (MainSpec).                               *)
(***************************************************************************)
\* C6: in the main script no Player, location or pet operation touches the
\* browser before log_in has returned: a call other than log_in has browser
\* events only when log_in has returned in this run, and when log_in raised
\* the script has ended with log_in as its last call.
C6_LoginBeforeScriptedActions ==
    /\ (call.op \notin {"none", "log_in"} /\ Len(events) > 0) => loginDone
    /\ (call.op \notin {"none", "log_in"}) => loginDone
    /\ (~loginDone /\ call.op = "log_in") => mainpc = MainEnded

C6_Witness ==
    /\ call.op = "use_item"
    /\ HasEvent(events, "click", "item")
    /\ loginDone

(***************************************************************************)
(* Properties of the page guard (LocationSpec).                            *)
(***************************************************************************)
\* the operations under require_location_page
DecoratedOps ==
    {"is_work_active", "get_work_time_left", "start_work_shift",
     "get_player_chips_amount", "buy_chips", "establish_connections",
     "is_tattoo_availiable", "get_tattoo", "get_current_petrics_amount",
     "get_petrics_amount_to_be_produced", "if_producing_petrics",
     "start_producing_petrics"}

OffPageCall == call.op \in DecoratedOps /\ ~call.opened

\* C8: an operation under require_location_page (Shaurburgers, Casino,
\* Police, NightClub, Factory) called while the driver is not on the
\* location's main page returns None, performs no click and changes no
\* player field.
C8_OffPageCallIsAborted ==
    OffPageCall =>
        /\ outcome = Returned(None)
        /\ ~HasKind(events, "click")
        /\ ~call.changed

(***************************************************************************)
(* Properties of use_item and of the pet's constructor (ItemSpec).         *)
(***************************************************************************)
UseItemCall == call.op = "use_item"

\* the element use_item clicks
ClickedElement == IF call.loc = "pet" THEN "pet_item_action" ELSE "item"

\* what the call was asked for and what the page showed it: call.arg holds
\* item, times, found (the item is on the page), count (the shown count, or
\* NotShown), action (the pet item's action element is there) and failAt
ItemSupported ==
    call.arg.item = (IF call.loc = "pet" THEN PetSupportedItem ELSE SupportedItem)
ItemPresent == call.arg.found
CountShown == call.arg.count # NotShown
CountAtLeastTimes == CountShown /\ call.arg.count >= call.arg.times
CountBelowTimes == CountShown /\ call.arg.count < call.arg.times
NoClickFails == call.arg.failAt = 0
ClickCount ==
    Cardinality({j \in 1..Len(events) : IsEvent(j, "click", ClickedElement)})

\* C11 (as claimed, `times` being a number of uses, times >= 0): use_item of
\* the player and of the pet clicks the item exactly `times` times when the
\* item is supported, present on the page, its shown count is at least `times`
\* and no click fails; it clicks zero times when the item is unsupported,
\* absent or its count is below `times`; it stops at the first failing click;
\* the clicks never exceed `times` nor the count.
C11_ClicksAsClaimed ==
    (UseItemCall /\ call.arg.times >= 0) =>
        /\ (ItemSupported /\ ItemPresent /\ CountAtLeastTimes /\ NoClickFails)
                => ClickCount = call.arg.times
        /\ (~ItemSupported \/ ~ItemPresent \/ CountBelowTimes) => ClickCount = 0
        /\ ~NoClickFails => ClickCount = call.arg.failAt - 1
        /\ ClickCount <= call.arg.times
        /\ CountShown => ClickCount <= call.arg.count

\* C11 (amended): for times >= 0, use_item clicks exactly `times` times when
\* the item is supported and present, its shown count is at least `times`, no
\* click fails and, for the pet, the item's action element is found; it clicks
\* zero times when the item is unsupported or absent, when its count is below
\* `times` and when the pet item's action element is missing; a failing click
\* is the last thing it does, after one click fewer than the failing one; the
\* clicks never exceed `times` nor the shown count.  For times < 0 it clicks
\* nothing.
C11_ClicksExactlyTimes ==
    UseItemCall =>
        /\ (call.arg.times >= 0 /\ ItemSupported /\ ItemPresent
            /\ CountAtLeastTimes /\ NoClickFails /\ call.arg.action)
                => (ClickCount = call.arg.times /\ outcome = Returned(None))
        /\ (\/ ~ItemSupported \/ ~ItemPresent \/ CountBelowTimes
            \/ ~call.arg.action \/ call.arg.times < 0)
                => ClickCount = 0
        /\ ~NoClickFails =>
                /\ events[Len(events)].k = "click_failed"
                /\ ClickCount = call.arg.failAt - 1
                /\ outcome = Returned(None)
        /\ call.arg.times >= 0 => ClickCount <= call.arg.times
        /\ CountShown => ClickCount <= call.arg.count

C11_Witness ==
    /\ UseItemCall
    /\ call.loc = "pet"
    /\ call.arg.times = 3
    /\ ClickCount = 1
    /\ call.arg.failAt = 2

\* C13: constructing PetForFightMain with a name that is not in pet_ids raises
\* ValueError before any browser navigation or page read (the call performs
\* no browser operation and the browser stays where it was), and no pet
\* object is created: the session's pet is what it was before the call.
C13_UnknownPetNameRaises ==
    [][(call'.op = "PetForFightMain" /\ call'.arg \notin PetNames)
        => /\ outcome' = Raised("ValueError")
           /\ events' = <<>>
           /\ url' = url
           /\ pet' = pet
           /\ player' = player]_vars

C13_Witness ==
    /\ call.op = "PetForFightMain"
    /\ call.arg = "Sharik"
    /\ outcome = Raised("ValueError")
    /\ events = <<>>
    /\ pet # NoPet
    /\ url = PetPage(pet.name)

(***************************************************************************)
(* Properties of Casino.buy_chips (LocationSpec).                          *)
(***************************************************************************)
\* the chip count the player object records: casino_chips once a call has
\* set it, Player.__init__'s chips until then
ChipCount(p) == IF HasAttr(p, "casino_chips") THEN p["casino_chips"] ELSE p["chips"]

\* C12: on the casino page buy_chips does nothing (no field edit, no confirm
\* click, no change of the player's chip count) when amount is outside 1..20;
\* for an amount within 1..20 it returns with the recorded chip count
\* increased by exactly amount when no prohibition error is found after the
\* confirm click, and leaves the count unchanged when the error is found,
\* whatever the session called before.
C12_BuyChipsRecordsPurchase ==
    [][(call'.op = "buy_chips" /\ call'.opened) =>
        /\ ~(MinChips <= call'.arg /\ call'.arg <= MaxChips)
              => (events' = <<>> /\ player' = player)
        /\ (/\ MinChips <= call'.arg /\ call'.arg <= MaxChips
            /\ HasEvent(events', "click", "buy_chips_confirm")
            /\ HasEvent(events', "miss", "buy_chips_error"))
              => /\ outcome' = Returned(None)
                 /\ ChipCount(player') = ChipCount(player) + call'.arg
        /\ HasEvent(events', "find", "buy_chips_error")
              => ChipCount(player') = ChipCount(player)]_vars

(***************************************************************************)
(* Properties of Home.open (HomeSpec).                                     *)
(***************************************************************************)
HomeOpenCall == call.op = "open" /\ call.loc = "home"

Navigated == HasKind(events, "get") \/ HasKind(events, "refresh")
OnlyRefreshed == events = <<Ev("refresh", "page", 0)>>
WentHomeFirst == Len(events) >= 1 /\ events[1] = Ev("get", "home", 0)
ClickedSubpage == HasEvent(events, "click", SubpageButton(call.arg.page))
ButtonMissing == HasEvent(events, "miss", SubpageButton(call.arg.page))

\* what open() does once it has decided to navigate: the home page first, a
\* subpage only through its button, on_page the subpage exactly when the
\* click succeeded and "home" otherwise
NavigatesAsClaimed ==
    /\ outcome = Returned(None)
    /\ WentHomeFirst
    /\ ~HasKind(events, "refresh")
    /\ \A i \in 2..Len(events) : events[i].k # "get"
    /\ call.arg.page = "home" => (Len(events) = 1 /\ home = "home")
    /\ call.arg.page # "home" =>
          /\ home = (IF ClickedSubpage THEN call.arg.page ELSE "home")
          /\ url = call.arg.page => ClickedSubpage
          /\ ButtonMissing => home = "home"

\* C14 as stated: ValueError without navigating or refreshing for a page
\* outside {home, mars, zodiac}; for a supported page a refresh when on_page
\* equals the page at the time of the call, and otherwise the home page first
\* and a subpage only through its button, with on_page the subpage only when
\* the click succeeded.
C14_OpenAsClaimed ==
    HomeOpenCall =>
        /\ call.arg.page \notin HomePages
              => (outcome = Raised("ValueError") /\ ~Navigated)
        /\ (call.arg.page \in HomePages /\ call.arg.on_page = call.arg.page)
              => (OnlyRefreshed /\ outcome = Returned(None))
        /\ (call.arg.page \in HomePages /\ call.arg.on_page # call.arg.page)
              => NavigatesAsClaimed

\* C14 (amended): Home.open raises ValueError for a page outside {home, mars,
\* zodiac} without navigating or refreshing; for a supported page it only
\* refreshes when on_page equals the page and the browser's url still holds
\* one of the words home, mars, zodiac; otherwise (on_page differs, or the
\* browser has left the home pages, which resets on_page to None) it goes to
\* the home page first and reaches a subpage only by clicking its button,
\* setting on_page to the subpage only when the click succeeded (on_page is
\* 'home' when the button is missing or the click fails).
C14_OpenRefreshesOnlyInsideHome ==
    HomeOpenCall =>
        /\ call.arg.page \notin HomePages
              => (outcome = Raised("ValueError") /\ ~Navigated /\ events = <<>>)
        /\ (/\ call.arg.page \in HomePages /\ call.arg.on_page = call.arg.page
            /\ call.arg.inside)
              => (OnlyRefreshed /\ outcome = Returned(None) /\ home = call.arg.page)
        /\ (/\ call.arg.page \in HomePages
            /\ (call.arg.on_page # call.arg.page \/ ~call.arg.inside))
              => NavigatesAsClaimed

\* open("mars") while on_page is "mars" but the browser has left the home
\* pages: the home page is loaded again and the button clicked
C14_Witness ==
    /\ HomeOpenCall
    /\ call.arg.page = "mars"
    /\ call.arg.on_page = "mars"
    /\ ~call.arg.inside
    /\ WentHomeFirst
    /\ ClickedSubpage
    /\ home = "mars"

(***************************************************************************)
(* Properties of go_on_activities and of the start operations it relies on *)
(* (ActivitySpec).                                                         *)
(***************************************************************************)
\* C15: the assertions of go_on_activities hold.  A call of the routine does
\* not end in AssertionError; start_patrol(40), called as the routine calls
\* it (on_patrol False and patrol_time_left >= 40), returns with on_patrol
\* True; start_work_shift(2), called as the routine calls it (on_work False
\* and work_time_left >= 2), returns with on_work True.
C15_AssertionsHold ==
    [][/\ call'.op = "go_on_activities" => outcome' # Raised("AssertionError")
       /\ (/\ call'.op = "start_patrol"
           /\ call'.arg = RoutinePatrolMinutes
           /\ ~player["on_patrol"]
           /\ player["patrol_time_left"] >= RoutinePatrolMinutes
           /\ outcome'.status = "returned")
             => player'["on_patrol"]
       /\ (/\ call'.op = "start_work_shift"
           /\ call'.arg = RoutineWorkHours
           /\ ~player["on_work"]
           /\ player["work_time_left"] >= RoutineWorkHours
           /\ outcome'.status = "returned")
             => player'["on_work"]]_vars

(***************************************************************************)
(* The time left recorded by the start operations (Spec).                  *)
(***************************************************************************)
TimeLeftField(op) ==
    CASE op = "start_patrol" -> "patrol_time_left"
      [] op = "start_watching_TV" -> "TV_time_left"
      [] OTHER -> "work_time_left"

\* the call found the activity's mark after its click on the start button
SeenActiveAfterClick(op) ==
    \E c \in 1..Len(events), j \in 1..Len(events) :
        /\ c < j
        /\ IsEvent(c, "click", StartButton(op))
        /\ IsEvent(j, "find", ActiveElement(op))

\* C16: a start operation that has clicked its start button has read the
\* activity's time left from the page once in this call; when it sees the
\* activity active after the click, the player's recorded time left is the
\* value read minus the duration asked for, and when it does not, the
\* recorded time left is the value read.
C16_TimeLeftAfterStart ==
    (call.op \in StartOps /\ Clicked(call.op)) =>
        /\ \E j \in 1..Len(events) : IsEvent(j, "text", TimeLeftElement(call.op))
        /\ \A j \in 1..Len(events) :
              IsEvent(j, "text", TimeLeftElement(call.op)) =>
                  player[TimeLeftField(call.op)] =
                      IF SeenActiveAfterClick(call.op)
                      THEN events[j].v - call.arg
                      ELSE events[j].v

C16_Witness ==
    /\ call.op = "start_work_shift"
    /\ call.arg = RoutineWorkHours
    /\ Clicked("start_work_shift")
    /\ SeenActiveAfterClick("start_work_shift")
    /\ ReadEnough("start_work_shift", MaxWorkHours + 1)
    /\ player["work_time_left"] = MaxWorkHours + 1 - RoutineWorkHours

====
